---- MODULE Spec2Model ----
(***************************************************************************)
(* A model of pandas-metricsreader: the HTTP base reader (BaseReader),     *)
(* the Graphite and PNP4Nagios readers built on it, the two column-label   *)
(* splitters (_create_multiindex) and the Graphite namespace walk.         *)
(*                                                                         *)
(* A behaviour is one scenario: Init draws the operation and its           *)
(* arguments, Construct builds the reader, and the operation then runs,    *)
(* the HTTP session answering each request nondeterministically.           *)
(*                                                                         *)
(* Strings are sequences of one-character strings; a label is a sequence   *)
(* of components (strings); a table is the sequence of its columns, each   *)
(* a record of the flat name the data came under and its current label;     *)
(* rows is the row index of the frame a splitter is called on, and         *)
(* new_labels the tuples that call handed to MultiIndex.from_tuples.        *)
(***************************************************************************)
EXTENDS Integers, Sequences, FiniteSets, TLC

VARIABLES op, pc, args, reader, table, rows, new_labels, ret, log, answers, k, dfs, stack, emitted,
          announced

vars == <<op, pc, args, reader, table, rows, new_labels, ret, log, answers, k, dfs, stack, emitted, announced>>

\* ------------------------------------------------------------------ bounds

\* Most columns in one table handed to the dot-separated splitter, and most
\* characters in one of their flat names.
MaxNames == 3

MaxNameLen == 2

\* The same for the underscore-separated splitter (a name needs three
\* characters to have a separator inside it).
MaxPnpNames == 2

MaxPnpNameLen == 3

\* Most targets (hosts) in one read call.
MaxTargets == 2

\* Most internal nodes in the namespace below the start of a walk.
MaxInternal == 3

\* ----------------------------------------------------------------- strings

\* All sequences over S of length lo..hi.
SeqsOf(S, lo, hi) == UNION {[1..n -> S] : n \in lo..hi}

Max(a, b) == IF a >= b THEN a ELSE b

\* The separator of each splitter: '.' in GraphiteReader._create_multiindex,
\* field_sep = '_' in PNP4NagiosReader.
Sep(variant) == IF variant = "graphite" THEN "." ELSE "_"

\* str.split(sep) for a one-character separator: one more component than
\* there are separators, empty components kept.
RECURSIVE split(_, _)
split(s, sep) ==
    IF \A i \in 1..Len(s) : s[i] # sep
    THEN <<s>>
    ELSE LET i == CHOOSE j \in 1..Len(s) :
                      s[j] = sep /\ \A h \in 1..(j - 1) : s[h] # sep
         IN <<SubSeq(s, 1, i - 1)>> \o split(SubSeq(s, i + 1, Len(s)), sep)

\* str.strip(sep): leading and trailing separator characters removed.
RECURSIVE strip(_, _)
strip(s, sep) ==
    IF s = <<>> THEN s
    ELSE IF s[1] = sep THEN strip(Tail(s), sep)
    ELSE IF s[Len(s)] = sep THEN strip(SubSeq(s, 1, Len(s) - 1), sep)
    ELSE s

\* The missing-value marker pandas puts where a tuple is too short.
NaN == <<"NaN">>

\* Code point order of the characters in use; the missing marker sorts last.
CharRank(c) ==
    CASE c = "." -> 46
      [] c = "_" -> 95
      [] c = "a" -> 97
      [] c = "b" -> 98
      [] OTHER -> 1000

\* s < t for strings, as Python compares them.
RECURSIVE StrLess(_, _)
StrLess(s, t) ==
    IF t = <<>> THEN FALSE
    ELSE IF s = <<>> THEN TRUE
    ELSE IF s[1] # t[1] THEN CharRank(s[1]) < CharRank(t[1])
    ELSE StrLess(Tail(s), Tail(t))

\* l < m for labels (tuples of strings), lexicographic by full tuple.
RECURSIVE LabelLess(_, _)
LabelLess(l, m) ==
    IF m = <<>> THEN FALSE
    ELSE IF l = <<>> THEN TRUE
    ELSE IF l[1] # m[1] THEN StrLess(l[1], m[1])
    ELSE LabelLess(Tail(l), Tail(m))

\* ------------------------------------------------------- pandas operations

RECURSIVE max_length(_)
max_length(columns) ==
    IF columns = <<>> THEN 0
    ELSE Max(Len(Head(columns)), max_length(Tail(columns)))

\* MultiIndex.from_tuples raises ValueError when the tuples have no level
\* at all ("Must pass non-zero number of levels/codes").
from_tuples_raises(tuples) == max_length(tuples) = 0

\* The tuples taken as they are, the shorter ones left short.
from_tuples_ragged(tuples) == tuples

\* MultiIndex.from_tuples: one level per position of the longest tuple, a
\* shorter tuple holding the missing marker at the positions it lacks.
from_tuples(tuples) ==
    [i \in DOMAIN tuples |->
        tuples[i] \o [j \in 1..(max_length(tuples) - Len(tuples[i])) |-> NaN]]

\* The column put in front of the others, whatever its label.
insert_in_front(col, sorted) == <<col>> \o sorted

\* Where a column goes into a table already sorted: behind every column
\* whose label is not greater (the sort is stable).
RECURSIVE insert_sorted(_, _)
insert_sorted(col, sorted) ==
    IF sorted = <<>> THEN <<col>>
    ELSE IF LabelLess(col.label, Head(sorted).label) THEN <<col>> \o sorted
    ELSE <<Head(sorted)>> \o insert_sorted(col, Tail(sorted))

\* The columns left in the order they have.
sort_index_skipped(t) == t

\* DataFrame.sort_index(axis=1): the columns in ascending label order, each
\* keeping its data.
RECURSIVE sort_index(_)
sort_index(t) ==
    IF t = <<>> THEN <<>>
    ELSE insert_sorted(t[Len(t)], sort_index(SubSeq(t, 1, Len(t) - 1)))

\* A frame as a backend delivers it: flat labels, columns in delivery order.
Frame(names) == [i \in DOMAIN names |-> [name |-> names[i], label |-> <<names[i]>>]]

\* The labels handed out from the wrong end.
set_columns_reversed(t, labels) ==
    [i \in DOMAIN t |-> [name |-> t[i].name, label |-> labels[Len(t) + 1 - i]]]

\* DataFrame.columns = index: the i-th column takes the i-th label.
set_columns(t, labels) == [i \in DOMAIN t |-> [name |-> t[i].name, label |-> labels[i]]]

\* --------------------------------------- GraphiteReader._create_multiindex

\* The padding loop: '' appended up to max_length.
padding(columns) ==
    [i \in DOMAIN columns |->
        columns[i] \o [j \in 1..(max_length(columns) - Len(columns[i])) |-> <<>>]]

Range(s) == {s[i] : i \in DOMAIN s}

\* The comparison that leaves out the first position of each pair.
RECURSIVE compare_names_after_first(_, _, _, _)
compare_names_after_first(row_idx, column, sec_column, idx) ==
    IF idx > Len(column) \/ idx > Len(sec_column) THEN row_idx
    ELSE compare_names_after_first(
            IF idx > 1 /\ column[idx] # sec_column[idx] /\ idx \notin Range(row_idx)
            THEN Append(row_idx, idx) ELSE row_idx,
            column, sec_column, idx + 1)

\* for idx, names in enumerate(zip(column, sec_column)): positions are
\* counted from 1 here.
RECURSIVE compare_names(_, _, _, _)
compare_names(row_idx, column, sec_column, idx) ==
    IF idx > Len(column) \/ idx > Len(sec_column) THEN row_idx
    ELSE compare_names(
            IF column[idx] # sec_column[idx] /\ idx \notin Range(row_idx)
            THEN Append(row_idx, idx) ELSE row_idx,
            column, sec_column, idx + 1)

\* for sec_column in columns[index+1:]
RECURSIVE compare_rest(_, _, _, _)
compare_rest(row_idx, columns, index, sec) ==
    IF sec > Len(columns) THEN row_idx
    ELSE compare_rest(compare_names(row_idx, columns[index], columns[sec], 1),
                      columns, index, sec + 1)

\* for index, column in enumerate(columns[:-1])
RECURSIVE compare_columns(_, _, _)
compare_columns(row_idx, columns, index) ==
    IF index > Len(columns) - 1 THEN row_idx
    ELSE compare_columns(compare_rest(row_idx, columns, index, index + 1),
                         columns, index + 1)

\* The sort of row_idx left out.
unsorted_row_idx(row_idx) == row_idx

\* row_idx.sort()
sort_row_idx(row_idx) == SortSeq(row_idx, LAMBDA x, y : x < y)

\* The positions kept: those found by the pairwise comparison, sorted.
significant(columns) == sort_row_idx(compare_columns(<<>>, columns, 1))

\* The positions cut out whenever removal is asked for, also of one name.
new_columns_of_any_count(columns, remove_redundant_indices) ==
    IF remove_redundant_indices
    THEN LET row_idx == significant(columns)
         IN [i \in DOMAIN columns |->
                [j \in DOMAIN row_idx |-> columns[i][row_idx[j]]]]
    ELSE columns

\* new_columns of the code, from the padded component lists.
new_columns(columns, remove_redundant_indices) ==
    IF remove_redundant_indices /\ Len(columns) > 1
    THEN LET row_idx == significant(columns)
         IN [i \in DOMAIN columns |->
                [j \in DOMAIN row_idx |-> columns[i][row_idx[j]]]]
    ELSE columns

\* The whole splitter on a frame with flat labels: the result frame, or the
\* frame untouched and the error from_tuples raised.
g_create_multiindex(t, remove_redundant_indices) ==
    LET columns == padding([i \in DOMAIN t |-> split(t[i].name, ".")])
        labels  == new_columns(columns, remove_redundant_indices)
    IN IF from_tuples_raises(labels)
       THEN [ok |-> FALSE, error |-> "ValueError", table |-> t, new_columns |-> labels]
       ELSE [ok |-> TRUE, error |-> "none", new_columns |-> labels,
             table |-> sort_index(set_columns(t, from_tuples(labels)))]

\* ------------------------------------- PNP4NagiosReader._create_multiindex

p_columns(t, sep) == [i \in DOMAIN t |-> split(strip(t[i].name, sep), sep)]

p_create_multiindex(t, sep) ==
    LET labels == p_columns(t, sep)
    IN IF from_tuples_raises(labels)
       THEN [ok |-> FALSE, error |-> "ValueError", table |-> t, new_columns |-> labels]
       ELSE [ok |-> TRUE, error |-> "none", new_columns |-> labels,
             table |-> sort_index(set_columns(t, from_tuples(labels)))]

\* ------------------------------------------------------------ BaseReader

\* requests.codes['ok']
codes_ok == 200

NoUrl == "None"

BaseUrl == "https://example.net"

NoReader == [cls |-> "none", url |-> NoUrl, tls_verify |-> "none", timeout |-> 0]

\* What a call has come to: nothing yet, a value returned, or an exception.
Pending == [kind |-> "none", type |-> "none", msg |-> "none", url |-> "none", status |-> 0]

Returned == [kind |-> "return", type |-> "none", msg |-> "none", url |-> "none", status |-> 0]

Raised(type, msg) == [kind |-> "raise", type |-> type, msg |-> msg, url |-> "none", status |-> 0]

\* BaseReader.__init__ (and _init_session): the four attributes are stored,
\* whatever they are; a missing session is replaced by a fresh one.
BaseReader_init(cls, url, tls_verify, timeout) ==
    [cls |-> cls, url |-> url, tls_verify |-> tls_verify, timeout |-> timeout]

\* urllib.parse.urljoin(base, path): without a base the path alone is left.
urljoin(base, path) == IF base = NoUrl THEN <<path>> ELSE <<base, path>>

\* The call _get makes on the session.
session_get(self, url, params) ==
    [url |-> url, params |-> params, verify |-> self.tls_verify, timeout |-> self.timeout]

\* The status test of _get gone wrong: every 2xx status let through.
get_result_any_2xx(answer) ==
    IF answer.kind = "exception"
    THEN Raised(answer.type, "none")
    ELSE IF answer.status < 200 \/ answer.status >= 300
    THEN [kind |-> "raise", type |-> "MetricsReaderError", msg |-> "Unable to read URL",
          url |-> answer.url, status |-> answer.status]
    ELSE Returned

\* _get catching the session's exception and raising its own error instead.
get_result_wrapping(answer) ==
    IF answer.kind = "exception"
    THEN Raised("MetricsReaderError", "Unable to read URL")
    ELSE IF answer.status # codes_ok
    THEN [kind |-> "raise", type |-> "MetricsReaderError", msg |-> "Unable to read URL",
          url |-> answer.url, status |-> answer.status]
    ELSE Returned

\* What _get makes of the session's answer: an exception of the session is
\* not caught, a status other than 200 raises MetricsReaderError with the
\* response's url and status, anything else is returned.
get_result(answer) ==
    IF answer.kind = "exception"
    THEN Raised(answer.type, "none")
    ELSE IF answer.status # codes_ok
    THEN [kind |-> "raise", type |-> "MetricsReaderError", msg |-> "Unable to read URL",
          url |-> answer.url, status |-> answer.status]
    ELSE Returned

\* The answers a session can give to a request for url: an exception
\* (requests raises MissingSchema for a url without a scheme), or a response
\* with a status, the url it was finally served from (which matters under
\* another status than 200 only) and a body (which matters under 200 only).
Exceptions(url) ==
    IF Len(url) < 2
    THEN {[kind |-> "exception", type |-> "MissingSchema", status |-> 0, url |-> "none",
           body |-> <<>>]}
    ELSE {[kind |-> "exception", type |-> "ConnectionError", status |-> 0, url |-> "none",
           body |-> <<>>]}

Responses(url, statuses, bodies) ==
    IF Len(url) < 2 THEN {}
    ELSE [kind : {"response"}, type : {"none"}, status : {codes_ok},
          url : {"served"}, body : bodies]
         \cup [kind : {"response"}, type : {"none"}, status : statuses \ {codes_ok},
               url : {"served", "redirected"}, body : {<<>>}]

\* ------------------------------------------------------------------- read

\* The request of GraphiteReader._download_single_metric for a target.
g_request(self, target) ==
    session_get(self, urljoin(self.url, "/render"), [target |-> target, format |-> "json"])

\* The request of PNP4NagiosReader._read_single_metric for a host.
p_request(self, host) ==
    session_get(self, urljoin(self.url, "pnp4nagios/xport/json"),
                [target |-> host, format |-> "json"])

\* The older PNP4Nagios reader, which does not look at the decoded body
\* before it reads the legend out of it.
p_read_single_metric_unchecked(answer) ==
    IF get_result(answer).kind = "raise"
    THEN [ok |-> FALSE, ret |-> get_result(answer), frame |-> <<>>]
    ELSE IF answer.body = <<>>
    THEN [ok |-> FALSE, ret |-> Raised("KeyError", "meta"), frame |-> <<>>]
    ELSE [ok |-> TRUE, ret |-> Returned, frame |-> Frame(answer.body)]

\* GraphiteReader._download_single_metric after the request: _get's error,
\* or the empty-dataset error for an empty JSON array, or the frame with one
\* column per series, in the order delivered. A body is the sequence of the
\* series names it holds.
g_download_single_metric(answer) ==
    IF get_result(answer).kind = "raise"
    THEN [ok |-> FALSE, ret |-> get_result(answer), frame |-> <<>>]
    ELSE IF answer.body = <<>>
    THEN [ok |-> FALSE, ret |-> Raised("MetricsReaderError", "Received empty dataset"),
          frame |-> <<>>]
    ELSE [ok |-> TRUE, ret |-> Returned, frame |-> Frame(answer.body)]

\* PNP4NagiosReader._read_single_metric after the request, the same for an
\* empty JSON object and the legend entries.
p_read_single_metric(answer) ==
    IF get_result(answer).kind = "raise"
    THEN [ok |-> FALSE, ret |-> get_result(answer), frame |-> <<>>]
    ELSE IF answer.body = <<>>
    THEN [ok |-> FALSE, ret |-> Raised("MetricsReaderError", "Received empty dataset"),
          frame |-> <<>>]
    ELSE [ok |-> TRUE, ret |-> Returned, frame |-> Frame(answer.body)]

\* The kinds of the targets argument each read accepts.
Accepted(variant) == IF variant = "graphite" THEN {"str", "list", "dict"} ELSE {"str", "list"}

\* The loop running backwards.
loop_target_reversed(targets, i) == targets[Len(targets) + 1 - i]

\* The target of the i-th iteration of read's loop.
loop_target(targets, i) == targets[i]

\* Whether read splits each target's frame on its own, inside the loop
\* (Graphite's dict branch, PNP4Nagios' list branch), and joins the frames
\* under their keys.
Keyed(variant, kind) ==
    (variant = "graphite" /\ kind = "dict") \/ (variant = "pnp" /\ kind = "list")

\* The splitter read applies.
create_multiindex(variant, t, remove_redundant_indices) ==
    IF variant = "graphite" THEN g_create_multiindex(t, remove_redundant_indices)
    ELSE p_create_multiindex(t, Sep("pnp"))

\* dfs[key] = frame: a new key goes last, a key already there keeps its
\* place and takes the new frame.
dict_set(d, key, frame) ==
    IF \E i \in DOMAIN d : d[i].key = key
    THEN [i \in DOMAIN d |-> IF d[i].key = key THEN [key |-> key, frame |-> frame] ELSE d[i]]
    ELSE Append(d, [key |-> key, frame |-> frame])

\* concat(dfs, axis=1) over a list of frames: their columns one frame after
\* the other.
RECURSIVE concat(_)
concat(d) == IF d = <<>> THEN <<>> ELSE Head(d).frame \o concat(Tail(d))

\* MultiIndex.nlevels of a frame's columns (a flat Index has one level).
nlevels(frame) == Len(frame[1].label)

\* The keys concat takes from a dict: pandas before 0.25 sorts them, later
\* versions take them in the dict's own order.
concat_key_order(d, sorted_keys) ==
    IF sorted_keys THEN SortSeq(d, LAMBDA x, y : StrLess(x.key, y.key)) ELSE d

\* A tuple kept whole as one value of a level.
RECURSIVE tuple_value(_)
tuple_value(label) ==
    IF label = <<>> THEN <<")">>
    ELSE Head(label) \o <<",">> \o tuple_value(Tail(label))

\* The columns of the frames one after the other, each with its frame's key.
RECURSIVE keyed_columns(_)
keyed_columns(d) ==
    IF d = <<>> THEN <<>>
    ELSE [i \in DOMAIN Head(d).frame |->
            [key |-> Head(d).key, name |-> Head(d).frame[i].name,
             label |-> Head(d).frame[i].label]]
         \o keyed_columns(Tail(d))

\* What concat can make of frames whose first has more levels than a later
\* one: the shorter labels filled up with the missing marker, every label
\* kept whole as the one value of a single level, or an error.
ConcatWays == {"filled", "whole", "raise"}

\* concat(dfs, axis=1) over a dict of frames: the columns of the frames in
\* the order of the keys, each label under its frame's key. The frames'
\* indexes are joined by MultiIndex.append, which cuts every label down to
\* the levels of the first frame when no frame has fewer levels than the
\* first, and goes by the tuples otherwise.
concat_keys(d, sorted_keys, way) ==
    LET ordered == concat_key_order(d, sorted_keys)
        cols    == keyed_columns(ordered)
        first   == nlevels(ordered[1].frame)
        longest == max_length([i \in DOMAIN cols |-> cols[i].label])
        under(c, label) == [name |-> c.name, label |-> <<c.key>> \o label]
    IN IF \A i \in DOMAIN ordered : nlevels(ordered[i].frame) >= first
       THEN [ok |-> TRUE, error |-> "none",
             table |-> [i \in DOMAIN cols |-> under(cols[i], SubSeq(cols[i].label, 1, first))]]
       ELSE IF way = "filled"
       THEN [ok |-> TRUE, error |-> "none",
             table |-> [i \in DOMAIN cols |->
                          under(cols[i], cols[i].label
                                \o [j \in 1..(longest - Len(cols[i].label)) |-> NaN])]]
       ELSE IF way = "whole"
       THEN [ok |-> TRUE, error |-> "none",
             table |-> [i \in DOMAIN cols |->
                          under(cols[i], <<<<"(">> \o tuple_value(cols[i].label)>>)]]
       ELSE [ok |-> FALSE, error |-> "IndexError", table |-> <<>>]

\* The series names the backends deliver in this model: none, one series of
\* one or of two components, two in descending order, two of different
\* depth.
Bodies(variant) ==
    LET s == Sep(variant)
    IN {<<>>, <<<<"a">>>>, <<<<"a", s, "a">>>>, <<<<"a", s, "b">>, <<"a", s, "a">>>>,
        <<<<"a">>, <<"a", s, "a">>>>}

\* ------------------------------------------------------------------- walk

\* walk's top left out.
NoTop == <<"None">>

\* str.rstrip('.*'): trailing dots and asterisks removed.
RECURSIVE rstrip(_)
rstrip(s) ==
    IF s # <<>> /\ s[Len(s)] \in {".", "*"} THEN rstrip(SubSeq(s, 1, Len(s) - 1)) ELSE s

\* The pattern walk asks find for.
walk_path(top) == IF top = NoTop THEN <<"*">> ELSE rstrip(top) \o <<".", "*">>

\* The request of GraphiteMetricsAPI.find for a pattern.
find_request(self, path) ==
    session_get(self, urljoin(self.url, "/metrics/find"),
                [query |-> path, formater |-> "treejson", wildcards |-> 0])

\* The ids walk collects from find's result: those allowing children, those
\* that are leaves.
internal_nodes(metrics) ==
    {metrics[i].id : i \in {j \in DOMAIN metrics : metrics[j].allowChildren = 1}}

leafs(metrics) == {metrics[i].id : i \in {j \in DOMAIN metrics : metrics[j].leaf = 1}}

\* walk from its start to its first yield, for the answer find's request
\* got: _get's error, the format error for a descriptor without its keys,
\* the AttributeError of None.rstrip in the yield, or the triple's path and
\* the two sets.
walk_body(top, answer) ==
    IF get_result(answer).kind = "raise"
    THEN [ok |-> FALSE, ret |-> get_result(answer)]
    ELSE IF \E i \in DOMAIN answer.body : answer.body[i].malformed
    THEN [ok |-> FALSE, ret |-> Raised("MetricsReaderError", "Unknown metrics format")]
    ELSE IF top = NoTop
    THEN [ok |-> FALSE, ret |-> Raised("AttributeError", "rstrip")]
    ELSE [ok |-> TRUE, ret |-> Returned, path |-> rstrip(top),
          internal_nodes |-> internal_nodes(answer.body), leafs |-> leafs(answer.body)]

\* list(a_set): the elements in the order the set iterates them, which is
\* any order.
Orders(S) == {o \in [1..Cardinality(S) -> S] : \A i, j \in DOMAIN o : o[i] = o[j] => i = j}

\* The frames of the nested generators with nothing left to walk are
\* finished and dropped, innermost first.
RECURSIVE unwound(_)
unwound(frames) ==
    IF frames = <<>> THEN <<>>
    ELSE IF frames[Len(frames)] = <<>> THEN unwound(SubSeq(frames, 1, Len(frames) - 1))
    ELSE frames

\* The nested generators after a yield: the loop over the nodes just listed
\* runs inside every loop already running, the nodes of the outer loops
\* waiting behind all of it.
walk_breadth_first(rest, nodes) == <<nodes>> \o rest

walk_recurse(rest, nodes) == Append(rest, nodes)

\* The namespace: what find answers for a pattern. The children of a node
\* are named a and b, a being a leaf, an internal node or both and b an
\* internal node; a descriptor may lack its keys. At most room of them are
\* internal.
ChildId(path, c) ==
    IF path = <<"*">> THEN <<c>> ELSE SubSeq(path, 1, Len(path) - 1) \o <<c>>

Descriptors(path) ==
    {[id |-> ChildId(path, "a"), leaf |-> f[1], allowChildren |-> f[2], malformed |-> FALSE] :
        f \in {<<1, 0>>, <<0, 1>>, <<1, 1>>}}
    \cup {[id |-> ChildId(path, "b"), leaf |-> 0, allowChildren |-> 1, malformed |-> FALSE]}

FindBodies(path, room) ==
    {m \in SeqsOf(Descriptors(path), 0, 2) :
        /\ \A i, j \in DOMAIN m : m[i].id = m[j].id => i = j
        /\ Cardinality(internal_nodes(m)) <= room}
    \cup {<<[id |-> ChildId(path, "a"), leaf |-> 1, allowChildren |-> 0, malformed |-> TRUE]>>}

\* ---------------------------------------------------------------- scenarios

Chars(variant) == {"a", Sep(variant)}

Names(variant, maxLen) == SeqsOf(Chars(variant), 1, maxLen)

SplitArgs ==
    [variant : {"graphite"}, names : SeqsOf(Names("graphite", MaxNameLen), 1, MaxNames),
     remove_redundant_indices : BOOLEAN]
    \cup
    [variant : {"pnp"}, names : SeqsOf(Names("pnp", MaxPnpNameLen), 1, MaxPnpNames),
     remove_redundant_indices : {FALSE}]

CtorArgs ==
    [cls : {"BaseReader"}, url : {NoUrl, BaseUrl}, tls_verify : {"/etc/ssl/certs/", "False"},
     timeout : {30, 13}]

Idle ==
    /\ reader = NoReader
    /\ new_labels = <<>>
    /\ table = <<>>
    /\ ret = Pending
    /\ log = <<>>
    /\ answers = <<>>
    /\ k = 0
    /\ dfs = <<>>
    /\ stack = <<>>
    /\ emitted = <<>>
    /\ announced = {}

\* The row index of the frame handed to a splitter: its timestamps, which
\* need not be in order.
RowIndex == <<"t2", "t1">>

InitSplit ==
    /\ op = "create_multiindex"
    /\ pc = "start"
    /\ args \in SplitArgs
    /\ rows = RowIndex
    /\ Idle

InitConstruct ==
    /\ op = "construct"
    /\ pc = "new"
    /\ args \in [ctor : CtorArgs]
    /\ rows = <<>>
    /\ Idle

InitGet ==
    /\ op = "get"
    /\ pc = "new"
    /\ args \in [ctor : CtorArgs, url : {<<BaseUrl, "/x">>, <<"/x">>}, params : {"none", "q"}]
    /\ rows = <<>>
    /\ Idle

Targets == {<<"a">>, <<"b">>}

\* The keys of a dict of targets: pairwise different strings.
Keys == {[i \in 1..n |-> "b"] : n \in 1..MaxTargets}

\* The targets argument by kind, as the sequence of its (key, target) pairs
\* in the order Python iterates them; only a dict has keys of its own.
TargetsArgs ==
    [kind : {"str"}, targets : {<<[key |-> t, target |-> t]>> : t \in Targets}]
    \cup {[kind |-> "list", targets |-> [i \in DOMAIN ts |-> [key |-> ts[i], target |-> ts[i]]]] :
            ts \in SeqsOf(Targets, 0, MaxTargets)}
    \cup {[kind |-> "dict", targets |-> ts] :
            ts \in {x \in SeqsOf([key : Keys, target : Targets], 0, MaxTargets) :
                        \A i, j \in DOMAIN x : x[i].key = x[j].key => i = j}}
    \cup [kind : {"tuple"}, targets : {<<[key |-> <<"a">>, target |-> <<"a">>],
                                          [key |-> <<"b">>, target |-> <<"b">>]>>}]

ReadArgs ==
    {[variant |-> v, ctor |-> [cls |-> v, url |-> u, tls_verify |-> "/etc/ssl/certs/",
                               timeout |-> 30],
      kind |-> t.kind, targets |-> t.targets, create_multiindex |-> c,
      remove_redundant_indices |-> r] :
        v \in {"graphite", "pnp"}, u \in {NoUrl, BaseUrl}, t \in TargetsArgs,
        c \in BOOLEAN, r \in BOOLEAN}

InitRead ==
    /\ op = "read"
    /\ pc = "new"
    /\ args \in {a \in ReadArgs : a.variant = "pnp" => a.remove_redundant_indices = FALSE}
    /\ rows = <<>>
    /\ Idle

Tops == {NoTop, <<"a">>, <<"a", ".">>, <<"a", ".", "*">>}

InitWalk ==
    /\ op = "walk"
    /\ pc = "new"
    /\ args \in [ctor : [cls : {"graphite"}, url : {NoUrl, BaseUrl},
                         tls_verify : {"/etc/ssl/certs/"}, timeout : {30}],
                 top : Tops]
    /\ rows = <<>>
    /\ Idle

Init == InitSplit \/ InitConstruct \/ InitGet \/ InitRead \/ InitWalk

\* ------------------------------------------------------------------ actions

\* One call of a splitter on a frame with flat column names: the columns are
\* relabelled and put in order, the rows are not touched.
CreateMultiindex ==
    /\ op = "create_multiindex"
    /\ pc = "start"
    /\ LET r == IF args.variant = "graphite"
                THEN g_create_multiindex(Frame(args.names), args.remove_redundant_indices)
                ELSE p_create_multiindex(Frame(args.names), Sep("pnp"))
       IN /\ table' = r.table
          /\ new_labels' = r.new_columns
          /\ ret' = IF r.ok THEN Returned ELSE Raised(r.error, "none")
    /\ pc' = "done"
    /\ UNCHANGED <<op, args, reader, log, answers, k, dfs, stack, emitted, announced, rows>>

\* The constructor of the scenario's reader.
Construct ==
    /\ pc = "new"
    /\ reader' = BaseReader_init(args.ctor.cls, args.ctor.url, args.ctor.tls_verify,
                                 args.ctor.timeout)
    /\ IF op = "construct"
       THEN pc' = "done" /\ ret' = Returned
       ELSE pc' = "start" /\ ret' = ret
    /\ UNCHANGED <<op, args, table, log, answers, k, dfs, stack, emitted, announced, rows, new_labels>>

\* BaseReader._get(url, params), the session giving one answer.
Get ==
    /\ op = "get"
    /\ pc = "start"
    /\ \E answer \in Exceptions(args.url)
                     \cup Responses(args.url, {codes_ok, 204, 401}, {<<>>}) :
          /\ log' = Append(log, session_get(reader, args.url, args.params))
          /\ answers' = Append(answers, answer)
          /\ ret' = get_result(answer)
    /\ pc' = "done"
    /\ UNCHANGED <<op, args, reader, table, k, dfs, stack, emitted, announced, rows, new_labels>>

\* read up to its loop: Graphite's check of the url, the dispatch on the
\* kind of the targets, and concat's refusal of no frames at all.
ReadBegin ==
    /\ op = "read"
    /\ pc = "start"
    /\ IF args.variant = "graphite" /\ reader.url = NoUrl
       THEN pc' = "done" /\ ret' = Raised("MetricsReaderError", "No URL specified")
       ELSE IF args.kind \notin Accepted(args.variant)
       THEN pc' = "done" /\ ret' = Raised("TypeError", "targets has to be of type")
       ELSE IF args.targets = <<>>
       THEN pc' = "done" /\ ret' = Raised("ValueError", "No objects to concatenate")
       ELSE pc' = "loop" /\ ret' = ret
    /\ k' = 1
    /\ UNCHANGED <<op, args, reader, table, log, answers, dfs, stack, emitted, announced, rows, new_labels>>

\* One iteration of read's loop: the request for the next target, the
\* session's answer, the frame made of it (split at once where read does
\* so), and, after the last target, the joining and splitting that end read.
ReadFetch ==
    /\ op = "read"
    /\ pc = "loop"
    /\ LET item  == loop_target(args.targets, k)
           req   == IF args.variant = "graphite" THEN g_request(reader, item.target)
                    ELSE p_request(reader, item.target)
           keyed == Keyed(args.variant, args.kind)
       IN \E answer \in Exceptions(req.url)
                         \cup Responses(req.url, {codes_ok, 401}, Bodies(args.variant)),
             sorted_keys \in BOOLEAN, way \in ConcatWays :
            LET d     == IF args.variant = "graphite" THEN g_download_single_metric(answer)
                         ELSE p_read_single_metric(answer)
                one   == IF d.ok /\ keyed /\ args.create_multiindex
                         THEN create_multiindex(args.variant, d.frame,
                                                args.remove_redundant_indices)
                         ELSE [ok |-> d.ok, error |-> "none", table |-> d.frame]
                all   == IF keyed THEN dict_set(dfs, item.key, one.table)
                         ELSE Append(dfs, [key |-> item.key, frame |-> one.table])
                whole == IF keyed THEN concat_keys(all, sorted_keys, way)
                         ELSE IF args.create_multiindex
                         THEN create_multiindex(args.variant, concat(all),
                                                args.remove_redundant_indices)
                         ELSE [ok |-> TRUE, error |-> "none", table |-> concat(all)]
            IN /\ log' = Append(log, req)
               /\ answers' = Append(answers, answer)
               /\ IF ~d.ok
                  THEN pc' = "done" /\ ret' = d.ret /\ UNCHANGED <<k, dfs, table>>
                  ELSE IF ~one.ok
                  THEN pc' = "done" /\ ret' = Raised(one.error, "none")
                       /\ UNCHANGED <<k, dfs, table>>
                  ELSE IF k < Len(args.targets)
                  THEN pc' = "loop" /\ k' = k + 1 /\ dfs' = all /\ UNCHANGED <<ret, table>>
                  ELSE IF ~whole.ok
                  THEN pc' = "done" /\ ret' = Raised(whole.error, "none") /\ dfs' = all
                       /\ UNCHANGED <<k, table>>
                  ELSE pc' = "done" /\ ret' = Returned /\ dfs' = all
                       /\ table' = whole.table /\ UNCHANGED k
    /\ UNCHANGED <<op, args, reader, stack, emitted, announced, rows, new_labels>>

\* One next() on the walk generator that runs a walk body: the outermost
\* one at the start, afterwards the one for the next node of the innermost
\* loop that has nodes left. It yields a triple or raises.
WalkYield ==
    /\ op = "walk"
    /\ pc \in {"start", "loop"}
    /\ pc = "loop" => unwound(stack) # <<>>
    /\ LET frames == unwound(stack)
           top    == IF pc = "start" THEN args.top ELSE Head(frames[Len(frames)])
           rest   == IF pc = "start" THEN <<>>
                     ELSE [frames EXCEPT ![Len(frames)] = Tail(@)]
           req    == find_request(reader, walk_path(top))
       IN \E answer \in Exceptions(req.url)
                         \cup Responses(req.url, {codes_ok, 401},
                                         FindBodies(walk_path(top),
                                                    MaxInternal - Cardinality(announced))) :
            LET w == walk_body(top, answer)
            IN /\ log' = Append(log, req)
               /\ answers' = Append(answers, answer)
               /\ announced' = IF get_result(answer).kind = "return"
                                THEN announced \cup internal_nodes(answer.body)
                                ELSE announced
               /\ IF ~w.ok
                  THEN pc' = "done" /\ ret' = w.ret /\ UNCHANGED <<stack, emitted>>
                  ELSE \E nodes \in Orders(w.internal_nodes), lfs \in Orders(w.leafs) :
                          /\ emitted' = Append(emitted, [path |-> w.path, nodes |-> nodes,
                                                          leafs |-> lfs])
                          /\ stack' = walk_recurse(rest, nodes)
                          /\ pc' = "loop"
                          /\ ret' = ret
    /\ UNCHANGED <<op, args, reader, table, k, dfs, rows, new_labels>>

\* The next() that finds every loop finished: the generator is exhausted.
WalkStop ==
    /\ op = "walk"
    /\ pc = "loop"
    /\ unwound(stack) = <<>>
    /\ pc' = "done"
    /\ ret' = Returned
    /\ stack' = <<>>
    /\ UNCHANGED <<op, args, reader, table, log, answers, k, dfs, emitted, announced, rows, new_labels>>

Next ==
    \/ CreateMultiindex \/ Construct \/ Get \/ ReadBegin \/ ReadFetch
    \/ WalkYield \/ WalkStop

Spec == Init /\ [][Next]_vars

\* ------------------------------------------------------------------- claims

SplitDone(variant) == op = "create_multiindex" /\ pc = "done" /\ args.variant = variant

\* What the splitters are specified to compute, stated without the code's
\* loops: the components of a name, the longest component count of a batch,
\* a name's component list padded with '' to that count, the positions at
\* which two names of the batch differ, and a list cut down to a set of
\* positions in ascending order.
Components(variant, name) ==
    IF variant = "graphite" THEN split(name, ".") ELSE split(strip(name, "_"), "_")

\* The padded component lists of a batch, one per name.
Padded(variant, names) ==
    LET comps == [i \in DOMAIN names |-> Components(variant, names[i])]
        n     == CHOOSE m \in {Len(comps[i]) : i \in DOMAIN names} :
                     \A i \in DOMAIN names : Len(comps[i]) <= m
    IN [i \in DOMAIN names |->
            [p \in 1..n |-> IF p <= Len(comps[i]) THEN comps[i][p] ELSE <<>>]]

MaxCount(padded) == Len(padded[1])

Differing(padded) ==
    {p \in 1..MaxCount(padded) : \E i, j \in DOMAIN padded : padded[i][p] # padded[j][p]}

Pick(list, positions) ==
    [n \in 1..Cardinality(positions) |->
        list[CHOOSE p \in positions : Cardinality({q \in positions : q < p}) = n - 1]]

\* The place of a column's flat name in the batch.
Named(names, col) == CHOOSE i \in DOMAIN names : names[i] = col.name

\* C1: after the dot-separated splitter has run with removal on over two or
\* more names, every column's label is its name's padded component list cut
\* down to the positions at which two names of the batch differ, in
\* ascending position order.
C1_RedundantRemoved ==
    (SplitDone("graphite") /\ args.remove_redundant_indices /\ Len(args.names) >= 2
        /\ ret.kind = "return")
    => \A padded \in {Padded("graphite", args.names)} :
         \A kept \in {Differing(padded)} :
            /\ Len(table) = Len(args.names)
            /\ \A c \in DOMAIN table :
                  table[c].label = Pick(padded[Named(args.names, table[c])], kept)

\* Three names of three positions: the last is dropped, the first two are
\* kept, and the pairwise comparison finds the second before the first.
C1_Witness ==
    /\ SplitDone("graphite") /\ args.remove_redundant_indices /\ ret.kind = "return"
    /\ Len(args.names) = 3
    /\ MaxCount(Padded("graphite", args.names)) = 3
    /\ Differing(Padded("graphite", args.names)) = {1, 2}
    /\ \E c \in DOMAIN table : table[c].label = <<<<"a">>, <<>>>>
    /\ \E c \in DOMAIN table : table[c].label = <<<<>>, <<"a">>>>

\* C2: with removal off, both splitters give every column a label as long as
\* the longest component list of the batch, a shorter name's label being its
\* components followed by '' components.
C2_PaddedToMax ==
    (op = "create_multiindex" /\ pc = "done" /\ ~args.remove_redundant_indices)
    => LET padded == Padded(args.variant, args.names)
       IN /\ ret.kind = "return"
          /\ \A c \in DOMAIN table :
                /\ Len(table[c].label) = MaxCount(padded)
                /\ table[c].label = padded[Named(args.names, table[c])]

\* C3: with removal on and two or more names that agree everywhere, the
\* splitter returns and every label is the empty tuple.
C3_AllIdenticalCollapse ==
    (SplitDone("graphite") /\ args.remove_redundant_indices /\ Len(args.names) >= 2
        /\ Differing(Padded("graphite", args.names)) = {})
    => /\ ret.kind = "return"
       /\ \A c \in DOMAIN table : table[c].label = <<>>

\* C4: a finished _get has made exactly one request, with its url and params
\* and the reader's verify and timeout; a status other than 200 has raised
\* MetricsReaderError with the response's url and status, and only a 200
\* response is returned.
C4_StatusGate ==
    (op = "get" /\ pc = "done")
    => /\ Len(log) = 1
       /\ log[1] = [url |-> args.url, params |-> args.params,
                    verify |-> args.ctor.tls_verify, timeout |-> args.ctor.timeout]
       /\ (answers[1].kind = "response" /\ answers[1].status # 200)
            => ret = [kind |-> "raise", type |-> "MetricsReaderError",
                      msg |-> "Unable to read URL", url |-> answers[1].url,
                      status |-> answers[1].status]
       /\ ret.kind = "return" => (answers[1].kind = "response" /\ answers[1].status = 200)

C4_Witness ==
    /\ op = "get" /\ pc = "done"
    /\ answers[1].kind = "response" /\ answers[1].status = 204
    /\ answers[1].url = "redirected"
    /\ ret.kind = "raise"

\* C5: an exception of the session is the last thing that happens in a
\* call: the call has ended raising that very exception, and no request
\* follows it.
C5_TransportErrorPassedThrough ==
    \A i \in DOMAIN answers :
        answers[i].kind = "exception"
        => /\ i = Len(answers)
           /\ Len(log) = Len(answers)
           /\ pc = "done"
           /\ ret = Raised(answers[i].type, "none")

C5_Witness ==
    /\ op = "get" /\ pc = "done"
    /\ Len(answers) = 1 /\ answers[1].kind = "exception"
    /\ answers[1].type = "ConnectionError"

\* C7: constructing a BaseReader without a url raises.
C7_ConstructWithoutUrlRaises ==
    (op = "construct" /\ pc = "done" /\ args.ctor.url = NoUrl) => ret.kind = "raise"

\* C6: an empty JSON array or object in a 200 response makes the series
\* parser of either reader raise the empty-dataset MetricsReaderError: the
\* call that was reading ends with it, and no table comes back.
C6_EmptyPayloadRejected ==
    \A i \in DOMAIN answers :
        (op = "read" /\ answers[i].kind = "response" /\ answers[i].status = 200
            /\ answers[i].body = <<>>)
        => /\ i = Len(answers)
           /\ pc = "done"
           /\ ret = Raised("MetricsReaderError", "Received empty dataset")
           /\ table = <<>>

C6_Witness ==
    /\ op = "read" /\ pc = "done" /\ args.variant = "pnp" /\ args.kind = "list"
    /\ Len(answers) = 2
    /\ answers[2].kind = "response" /\ answers[2].status = 200 /\ answers[2].body = <<>>
    /\ ret.type = "MetricsReaderError"

\* C8: a read given targets of a kind it does not accept raises TypeError
\* and has made no request.
C8_WrongKindIsTypeError ==
    (op = "read" /\ pc = "done" /\ args.kind \notin Accepted(args.variant))
    => /\ ret.kind = "raise" /\ ret.type = "TypeError"
       /\ log = <<>>

\* What a failed fetch raises: the session's exception, the status error, or
\* the empty-dataset error.
Failed(answer) ==
    answer.kind = "exception" \/ answer.status # 200 \/ answer.body = <<>>

FailureOf(answer) ==
    IF answer.kind = "exception" THEN Raised(answer.type, "none")
    ELSE IF answer.status # 200
    THEN [kind |-> "raise", type |-> "MetricsReaderError", msg |-> "Unable to read URL",
          url |-> answer.url, status |-> answer.status]
    ELSE Raised("MetricsReaderError", "Received empty dataset")

\* C9: in a read of a list or a dict, the requests made so far are for the
\* first targets of the argument, one each and in its order; a read that
\* returns has fetched every target; and when the fetch of the k-th target
\* fails, the read has ended with that error after k requests, with no table.
C9_SequentialAbortOnFailure ==
    (op = "read" /\ args.kind \in {"list", "dict"})
    => /\ Len(log) <= Len(args.targets)
       /\ \A i \in DOMAIN log : log[i].params.target = args.targets[i].target
       /\ (pc = "done" /\ ret.kind = "return") => Len(log) = Len(args.targets)
       /\ ret.kind = "raise" => table = <<>>
       /\ \A i \in DOMAIN answers :
            Failed(answers[i])
            => /\ pc = "done"
               /\ ret = FailureOf(answers[i])
               /\ Len(log) = i
               /\ table = <<>>

\* Two different targets, the first fetched well, the second failing.
C9_Witness ==
    /\ op = "read" /\ pc = "done" /\ args.kind = "list" /\ args.variant = "graphite"
    /\ Len(args.targets) = 2 /\ args.targets[1].target # args.targets[2].target
    /\ Len(answers) = 2 /\ ~Failed(answers[1]) /\ Failed(answers[2])
    /\ ret.kind = "raise"

\* The session answered every request of the walk with a 200 response of
\* well-formed descriptors.
Healthy ==
    \A i \in DOMAIN answers :
        /\ answers[i].kind = "response" /\ answers[i].status = 200
        /\ \A j \in DOMAIN answers[i].body : ~answers[i].body[j].malformed

\* C10: a walk consumed to its end over a namespace that answers every find
\* has returned after one triple for its start and one for every internal
\* node below it, with one find per triple; where the first find shows no
\* internal node, that is one triple and one find.
C10_WalkOneTriplePerNode ==
    (op = "walk" /\ pc = "done" /\ Healthy)
    => /\ ret.kind = "return"
       /\ Len(emitted) = 1 + Cardinality(announced)
       /\ Len(log) = Len(emitted)

\* A walk without a top, ended by its first next() although find answered.
C10_WalkWithoutTopRaises ==
    /\ op = "walk" /\ pc = "done" /\ Healthy /\ args.top = NoTop
    /\ ret.type = "AttributeError" /\ emitted = <<>> /\ Len(log) = 1

\* The same for the walks that are given a top.
WalkOneTriplePerNodeBelowTop ==
    (op = "walk" /\ pc = "done" /\ Healthy /\ args.top # NoTop)
    => /\ ret.kind = "return"
       /\ Len(emitted) = 1 + Cardinality(announced)
       /\ Len(log) = Len(emitted)

\* The path of every triple emitted so far, in the order of emission.
Paths(triples) == [i \in DOMAIN triples |-> triples[i].path]

\* The ids of a find result that carry a flag, in the order find gave them.
InFindOrder(metrics, flag) ==
    LET ids == SelectSeq(metrics, LAMBDA m : IF flag = "leaf" THEN m.leaf = 1
                                                 ELSE m.allowChildren = 1)
    IN [i \in DOMAIN ids |-> ids[i].id]

\* The first find answered with a 200 response of well-formed descriptors.
FirstFindAnswered ==
    /\ answers # <<>>
    /\ answers[1].kind = "response" /\ answers[1].status = 200
    /\ \A j \in DOMAIN answers[1].body : ~answers[1].body[j].malformed

\* C11: a walk asks its first find for '*' when it has no top and for the
\* top without its trailing dots and asterisks, followed by '.*', when it has
\* one; a walk without top whose find is answered emits the triple of the
\* root and does not fail where the namespace answers.
C11_WalkStartPattern ==
    (op = "walk" /\ log # <<>>)
    => /\ args.top = NoTop => log[1].params.query = <<"*">>
       /\ args.top # NoTop => log[1].params.query = <<"a", ".", "*">>
       /\ (args.top = NoTop /\ FirstFindAnswered)
            => /\ emitted # <<>>
               /\ emitted[1].nodes \in Orders(internal_nodes(answers[1].body))
               /\ (pc = "done" /\ Healthy) => ret.kind = "return"

\* The half of it that is about the pattern.
WalkPatternOfTop ==
    (op = "walk" /\ log # <<>>)
    => /\ args.top = NoTop => log[1].params.query = <<"*">>
       /\ args.top # NoTop => log[1].params.query = <<"a", ".", "*">>

\* The triples of a walk in pre-order, taking each node's children from the
\* list in its own triple.
RECURSIVE PreOrder(_, _)
RECURSIVE PreOrderAll(_, _)
PreOrder(triples, p) ==
    IF \E i \in DOMAIN triples : triples[i].path = p
    THEN <<p>> \o PreOrderAll(triples,
                              triples[CHOOSE i \in DOMAIN triples : triples[i].path = p].nodes)
    ELSE <<p>>

PreOrderAll(triples, nodes) ==
    IF nodes = <<>> THEN <<>>
    ELSE PreOrder(triples, Head(nodes)) \o PreOrderAll(triples, Tail(nodes))

\* C12 as stated: the triples come in pre-order, and every triple lists the
\* internal nodes and the leaves in the order find returned them.
C12_PreOrderInFindOrder ==
    op = "walk"
    => /\ (pc = "done" /\ ret.kind = "return")
            => Paths(emitted) = PreOrder(emitted, emitted[1].path)
       /\ \A i \in DOMAIN emitted :
            /\ emitted[i].nodes = InFindOrder(answers[i].body, "allowChildren")
            /\ emitted[i].leafs = InFindOrder(answers[i].body, "leaf")

\* C12 amended: the triples come in pre-order by the order in which each
\* triple lists its internal nodes, and every triple lists the internal
\* nodes and the leaves find returned, each once, in some order.
C12_PreOrderInListedOrder ==
    op = "walk"
    => /\ (pc = "done" /\ ret.kind = "return")
            => Paths(emitted) = PreOrder(emitted, emitted[1].path)
       /\ \A i \in DOMAIN emitted :
            /\ emitted[i].nodes \in Orders(internal_nodes(answers[i].body))
            /\ emitted[i].leafs \in Orders(leafs(answers[i].body))

\* A finished walk of four triples: the start lists two internal nodes in
\* the other order than find gave them, and the first listed has a child,
\* walked before the second.
C12_Witness ==
    /\ op = "walk" /\ pc = "done" /\ ret.kind = "return"
    /\ Len(emitted) = 4
    /\ Len(emitted[1].nodes) = 2
    /\ emitted[1].nodes # InFindOrder(answers[1].body, "allowChildren")
    /\ Len(emitted[2].nodes) = 1
    /\ emitted[2].path = emitted[1].nodes[1]
    /\ emitted[3].path = emitted[2].nodes[1]
    /\ emitted[4].path = emitted[1].nodes[2]

ReadReturned == op = "read" /\ pc = "done" /\ ret.kind = "return"

\* C13: in a table read returns with hierarchical labels on, every column
\* label has the same number of components (a position holding the missing
\* marker counted), for every kind of targets, in both readers.
C13_EqualLabelLength ==
    (ReadReturned /\ args.create_multiindex)
    => \A c, d \in DOMAIN table : Len(table[c].label) = Len(table[d].label)

\* Two hosts read by the PNP4Nagios reader, the first with a series of two
\* components and the second with none but of one component.
C13_Witness ==
    /\ ReadReturned /\ args.create_multiindex
    /\ args.variant = "pnp" /\ args.kind = "list"
    /\ Len(dfs) = 2
    /\ nlevels(dfs[1].frame) = 2
    /\ nlevels(dfs[2].frame) = 1
    /\ Len(table) >= 2

PairwiseDifferent(seq) == \A i, j \in DOMAIN seq : seq[i] = seq[j] => i = j

SplitReturned == op = "create_multiindex" /\ pc = "done" /\ ret.kind = "return"

\* C14: when the flat names given to a splitter are pairwise different, the
\* labels of the table it leaves are pairwise different.
C14_LabelsUnique ==
    (SplitReturned /\ PairwiseDifferent(args.names))
    => PairwiseDifferent([c \in DOMAIN table |-> table[c].label])

\* A name no component of which is empty: no separator at either end, no
\* two in a row.
Plain(variant, name) ==
    \A p \in DOMAIN split(name, Sep(variant)) : split(name, Sep(variant))[p] # <<>>

\* The same for batches of such names only.
LabelsUniqueOfPlainNames ==
    (SplitReturned /\ PairwiseDifferent(args.names)
        /\ \A i \in DOMAIN args.names : Plain(args.variant, args.names[i]))
    => PairwiseDifferent([c \in DOMAIN table |-> table[c].label])

\* l <= m for labels.
LabelLeq(l, m) == ~LabelLess(m, l)

Ascending(t) == \A c \in 1..(Len(t) - 1) : LabelLeq(t[c].label, t[c + 1].label)

\* C15 as stated: the table read returns has its columns in ascending label
\* order, with flat or hierarchical labels, for every kind of targets.
C15_ReadColumnsAscending == ReadReturned => Ascending(table)

\* C15 amended: the table read returns with hierarchical labels on has its
\* columns in ascending label order when the targets are a single target or
\* host or, in the Graphite reader, a list.
C15_SplitReadColumnsAscending ==
    (ReadReturned /\ args.create_multiindex /\ ~Keyed(args.variant, args.kind))
    => Ascending(table)

\* A list of two targets whose series the backend delivered in descending
\* order, the second target's series belonging before the first's.
C15_Witness ==
    /\ ReadReturned /\ args.create_multiindex
    /\ args.variant = "graphite" /\ args.kind = "list" /\ Len(args.targets) = 2
    /\ ~args.remove_redundant_indices
    /\ answers[1].body = <<<<"a", ".", "b">>, <<"a", ".", "a">>>>
    /\ answers[2].body = <<<<"a">>>>
    /\ Len(table) = 3
    /\ table[1].name = <<"a">>

\* C16: after a call of either splitter has returned, the columns of the
\* table are in ascending order of their labels, compared as whole tuples
\* component by component (a missing component after every string).
C16_SplitColumnsAscending == SplitReturned => Ascending(table)

\* Three names given in descending order of their labels.
C16_Witness ==
    /\ SplitReturned /\ Len(args.names) = 3 /\ ~args.remove_redundant_indices
    /\ LabelLess(<<args.names[3]>>, <<args.names[2]>>)
    /\ LabelLess(<<args.names[2]>>, <<args.names[1]>>)
    /\ table[1].name = args.names[3]
    /\ table[3].name = args.names[1]
    /\ LabelLess(table[1].label, table[2].label)
    /\ LabelLess(table[2].label, table[3].label)

\* C17 as stated: after the underscore-separated splitter, every original
\* name c has a column labelled with the components of c split at the
\* separator, holding the data that came under c, and the row index is as
\* before.
C17_LabelsOfSplitNames ==
    SplitDone("pnp")
    => /\ ret.kind = "return"
       /\ rows = RowIndex
       /\ \A i \in DOMAIN args.names :
            \E c \in DOMAIN table :
                /\ table[c].name = args.names[i]
                /\ table[c].label = split(args.names[i], "_")

\* A label made of the components and nothing but missing markers after.
FilledUp(label, components) ==
    /\ Len(label) >= Len(components)
    /\ SubSeq(label, 1, Len(components)) = components
    /\ \A p \in (Len(components) + 1)..Len(label) : label[p] = NaN

\* C17 amended: after the underscore-separated splitter has returned, every
\* original name c has a column holding the data that came under c whose
\* label is the components of c, taken off its leading and trailing
\* separators and split at the separator, filled up with the missing
\* marker to the longest label of the table; the table has as many columns
\* as before and the row index is as before.
C17_LabelsOfStrippedNames ==
    (SplitDone("pnp") /\ ret.kind = "return")
    => /\ rows = RowIndex
       /\ Len(table) = Len(args.names)
       /\ \A c, d \in DOMAIN table : Len(table[c].label) = Len(table[d].label)
       /\ \A i \in DOMAIN args.names :
            \E c \in DOMAIN table :
                /\ table[c].name = args.names[i]
                /\ FilledUp(table[c].label, Components("pnp", args.names[i]))

\* Two names the sort swaps, the first with a separator in front and one
\* component fewer than the second.
C17_Witness ==
    /\ SplitDone("pnp") /\ ret.kind = "return"
    /\ args.names = <<<<"_", "a">>, <<"a", "_", "a">>>>
    /\ table[1].name = <<"a", "_", "a">>
    /\ table[1].label = <<<<"a">>, <<"a">>>>
    /\ table[2].name = <<"_", "a">>
    /\ table[2].label = <<<<"a">>, NaN>>

\* C18: when the dot-separated splitter runs with removal off, or on fewer
\* than two names, the tuples it makes, before the sort, are the padded
\* component lists of the names, the i-th of the i-th name; so with one
\* name they are the same with removal on and off.
C18_PaddedListsInInputOrder ==
    (SplitDone("graphite") /\ (~args.remove_redundant_indices \/ Len(args.names) < 2))
    => /\ ret.kind = "return"
       /\ new_labels = Padded("graphite", args.names)

\* Three names with removal off, the first padded, which the sort puts in
\* another order than they came in.
C18_Witness ==
    /\ SplitDone("graphite") /\ ~args.remove_redundant_indices
    /\ args.names = <<<<"a">>, <<".", "a">>, <<"a", ".">>>>
    /\ new_labels = <<<<<<"a">>, <<>>>>, <<<<>>, <<"a">>>>, <<<<"a">>, <<>>>>>>
    /\ table[1].name = <<".", "a">>

\* C19: when the dot-separated splitter runs with removal on over two or
\* more names of which two differ in their padded component lists, it
\* returns, every label keeps every position at which two names differ, and
\* any two names whose padded lists differ get different labels, on
\* columns of their own.
C19_RemovalNeverMerges ==
    (SplitDone("graphite") /\ args.remove_redundant_indices /\ Len(args.names) >= 2)
    => \A padded \in {Padded("graphite", args.names)} :
         \A kept \in {Cardinality(Differing(padded))} :
            kept > 0
            => /\ ret.kind = "return"
               /\ Len(table) = Len(args.names)
               /\ \A i \in DOMAIN args.names :
                    /\ Len(new_labels[i]) = kept
                    /\ \E c \in DOMAIN table :
                          table[c].name = args.names[i] /\ table[c].label = new_labels[i]
                    /\ \A j \in DOMAIN args.names :
                          padded[i] # padded[j] => new_labels[i] # new_labels[j]

\* Three names, two of them alike after padding, the third differing from
\* them in the first position only, which alone is kept.
C19_Witness ==
    /\ SplitDone("graphite") /\ args.remove_redundant_indices /\ ret.kind = "return"
    /\ args.names = <<<<"a">>, <<"a", ".">>, <<".">>>>
    /\ new_labels = <<<<<<"a">>>>, <<<<"a">>>>, <<<<>>>>>>

====
